---- MODULE Spec2Model ----
(***************************************************************************)
(* SavolBot answer pipeline (src/main.py): the backoff retrier, the        *)
(* semaphore-guarded completion client, the search client, the composers   *)
(* (plain, search-augmented, legal) and the queue workers that run them.   *)
(*                                                                         *)
(* Scheduling is asyncio's: one thread, tasks interleaved at await points. *)
(* An action of the model is the code a task runs between two awaits.      *)
(***************************************************************************)
EXTENDS Integers, Sequences, FiniteSets, TLC

VARIABLES
    cfg,        \* environment read at import: MODEL_CONCURRENCY, WORKER_CONCURRENCY, the API keys
    sem,        \* _model_sem._value: free permits
    queue,      \* SAVOL_QUEUE: sequence of SavolTask
    proc,       \* per task (worker or legal handler): its coroutine state
    delivered,  \* the requests whose text went to bot.send_message / safe_answer, in order
    nmsgs,      \* inbound text messages handled so far
    ack,        \* what handle_text answered to the latest message it did not pass to answer_legal
    rt,         \* a stand-alone _retry invocation: its loop state
    rhist,      \* outcomes of that invocation's operation, in order
    rsleeps,    \* backoff sleeps that invocation has started
    fy          \* a stand-alone _contains_fresh_year evaluation: its input and result

vars == <<cfg, sem, queue, proc, delivered, nmsgs, ack, rt, rhist, rsleeps, fy>>

(***************************************************************************)
(* Bounds of the model.                                                    *)
(***************************************************************************)
MaxAttempts == 3    \* largest `attempts` the stand-alone retrier is run with
MaxMsgs == 2        \* inbound messages per behaviour
MaxLegal == 1       \* concurrent legal-mode handlers
MaxWorkers == 2     \* largest configured WORKER_CONCURRENCY
MaxPermits == 2     \* largest configured MODEL_CONCURRENCY
MaxResults == 2     \* results in one lex.uz search response
MaxWebResults == 5  \* results in one web search response
MaxPosition == 8

MaxQueueMsgs == 4   \* inbound messages per behaviour of the queue on its own
MaxThreshold == 3   \* largest configured QUEUE_NOTICE_THRESHOLD
MaxCutoff == 1      \* "knowledge cutoff" replies per job
MaxYears == 2       \* number tokens in a text given to the year rule

(***************************************************************************)
(* Exceptions.  httpx.HTTPStatusError and httpx.TransportError both derive *)
(* from httpx.HTTPError; asyncio.TimeoutError and everything else do not.  *)
(***************************************************************************)
NoExc == [cls |-> "None", code |-> 0]
HTTPStatusError(code) == [cls |-> "HTTPStatusError", code |-> code]
TransportError == [cls |-> "TransportError", code |-> 0]
TimeoutError == [cls |-> "TimeoutError", code |-> 0]
OtherError == [cls |-> "Exception", code |-> 0]
NameError == [cls |-> "NameError", code |-> 0]

IsHTTPError(e) == e.cls \in {"HTTPStatusError", "TransportError"}

\* status codes the model draws responses and status errors from
StatusCodes == {400, 401, 402, 403, 404, 429, 500, 502, 503, 504}

RetryableCodes == {429, 500, 502, 503, 504}

(***************************************************************************)
(* _retry(coro_factory, attempts, base_delay)                              *)
(* The loop state: i is the loop index, phase is where the coroutine       *)
(* stands: awaiting coro_factory() ("call"), awaiting asyncio.sleep        *)
(* ("sleep"), or finished ("returned" with val, "raised" with exc).        *)
(***************************************************************************)
NoVal == [kind |-> "None"]

\* no question was enqueued yet
NoAck == [kind |-> "none", pos |-> 0, eta |-> 0]

Returned(v) == [kind |-> "return", val |-> v, exc |-> NoExc]
Raised(e) == [kind |-> "raise", val |-> NoVal, exc |-> e]

RetryIdle ==
    [phase |-> "idle", attempts |-> 0, i |-> 0, last_exc |-> NoExc,
     val |-> NoVal, exc |-> NoExc]

\* entering the function: range(attempts) is empty for attempts <= 0, and then
\* last_exc is None and the function returns None
RetryBegin(attempts) ==
    IF attempts <= 0
    THEN [RetryIdle EXCEPT !.phase = "returned", !.attempts = attempts]
    ELSE [RetryIdle EXCEPT !.phase = "call", !.attempts = attempts]

\* the except clauses: which exceptions of the operation are kept in last_exc
MutIsRetryable(e) == IsHTTPError(e) \/ e.cls = "TimeoutError"

IsRetryable(e) ==
    IF e.cls = "HTTPStatusError"
    THEN e.code \in RetryableCodes
    ELSE IsHTTPError(e) \/ e.cls = "TimeoutError"

\* `await coro_factory()` finished with outcome o
RetryOnOutcome(rs, o) ==
    IF o.kind = "return"
    THEN [rs EXCEPT !.phase = "returned", !.val = o.val]
    ELSE IF IsRetryable(o.exc)
         THEN [rs EXCEPT !.phase = "sleep", !.last_exc = o.exc]
         ELSE [rs EXCEPT !.phase = "raised", !.exc = o.exc]

\* the loop bound: is there an iteration after index i
MutHasNextAttempt(rs) == rs.i + 1 <= rs.attempts

HasNextAttempt(rs) == rs.i + 1 < rs.attempts

\* `await asyncio.sleep(...)` finished: next iteration, or the loop is over and
\* `if last_exc: raise last_exc`
RetryOnWake(rs) ==
    IF HasNextAttempt(rs)
    THEN [rs EXCEPT !.phase = "call", !.i = rs.i + 1]
    ELSE IF rs.last_exc # NoExc
         THEN [rs EXCEPT !.phase = "raised", !.i = rs.i + 1, !.exc = rs.last_exc]
         ELSE [rs EXCEPT !.phase = "returned", !.i = rs.i + 1]

RetryDone(rs) == rs.phase \in {"returned", "raised"}

(***************************************************************************)
(* _friendly_error_text(e, lang): the key of the message table M, and the  *)
(* table (uz or ru) it is read from.                                       *)
(***************************************************************************)
Langs == {"ru", "uz"}

FriendlyKey(e) ==
    IF e.cls = "HTTPStatusError" /\ e.code = 429 THEN "429"
    ELSE IF e.cls = "HTTPStatusError" /\ e.code = 401 THEN "401"
    ELSE IF e.cls = "HTTPStatusError" /\ e.code = 402 THEN "402"
    ELSE IF e.cls = "HTTPStatusError" /\ 500 <= e.code /\ e.code <= 599 THEN "5xx"
    ELSE IF IsHTTPError(e) \/ e.cls = "TimeoutError" THEN "timeout"
    ELSE "generic"

MutFriendlyRaw(e, lang) ==
    IF FriendlyKey(e) = "generic"
    THEN [t |-> "raw", key |-> e.cls, lang |-> lang]
    ELSE [t |-> "friendly", key |-> FriendlyKey(e), lang |-> IF lang = "uz" THEN "uz" ELSE "ru"]

_friendly_error_text(e, lang) ==
    [t |-> "friendly", key |-> FriendlyKey(e), lang |-> IF lang = "uz" THEN "uz" ELSE "ru"]

(***************************************************************************)
(* _contains_fresh_year(s, window), run on its own.  A text is the         *)
(* sequence of the numbers that stand in it as words; y_now is             *)
(* datetime.utcnow().year, or 2025 when the clock cannot be read.          *)
(***************************************************************************)
NoFresh == [phase |-> "idle", s |-> <<>>, y_now |-> 0, result |-> FALSE]

\* the numbers a text may hold, and the years the clock may show
YearTokens == {1999, 2022, 2023, 2025, 2026, 2029, 2030, 2099}

ClockYears == {2025, 2026}

\* the default of the `window` parameter
FreshWindow == 3

RECURSIVE FindYears(_)
\* re.findall(r"\b(20\d{2})\b", s): the words that are 20 and two digits
FindYears(s) ==
    IF s = <<>> THEN <<>>
    ELSE IF 2000 <= Head(s) /\ Head(s) <= 2099
         THEN <<Head(s)>> \o FindYears(Tail(s))
         ELSE FindYears(Tail(s))

\* any(y_now - y <= window for y in years)
_contains_fresh_year(s, window, y_now) ==
    LET years == FindYears(s)
    IN \E k \in 1..Len(years) : y_now - years[k] <= window

FreshYearCall(s, y_now) ==
    /\ fy' = [phase |-> "done", s |-> s, y_now |-> y_now,
              result |-> _contains_fresh_year(s, FreshWindow, y_now)]
    /\ UNCHANGED <<cfg, sem, queue, proc, delivered, nmsgs, ack, rt, rhist, rsleeps>>

(***************************************************************************)
(* The stand-alone retrier: _retry run with any attempts in 0..MaxAttempts *)
(* on an operation that may return or raise anything at each invocation.   *)
(***************************************************************************)
OpExceptions ==
    {HTTPStatusError(c) : c \in StatusCodes} \cup {TransportError, TimeoutError, OtherError}

OpOutcomes == {Returned([kind |-> "response"])} \cup {Raised(e) : e \in OpExceptions}

RtStart(attempts) ==
    /\ rt.phase = "idle"
    /\ rt' = RetryBegin(attempts)
    /\ UNCHANGED <<cfg, sem, queue, proc, delivered, nmsgs, rhist, rsleeps, ack, fy>>

RtInvoke(o) ==
    /\ rt.phase = "call"
    /\ rt' = RetryOnOutcome(rt, o)
    /\ rhist' = Append(rhist, o)
    /\ rsleeps' = IF rt'.phase = "sleep" THEN rsleeps + 1 ELSE rsleeps
    /\ UNCHANGED <<cfg, sem, queue, proc, delivered, nmsgs, ack, fy>>

RtWake ==
    /\ rt.phase = "sleep"
    /\ rt' = RetryOnWake(rt)
    /\ UNCHANGED <<cfg, sem, queue, proc, delivered, nmsgs, rhist, rsleeps, ack, fy>>

InitRetry ==
    /\ cfg = [MODEL_CONCURRENCY |-> 1, WORKER_CONCURRENCY |-> 1, QUEUE_NOTICE_THRESHOLD |-> 3,
              TAVILY_API_KEY |-> FALSE, OPENAI_API_KEY |-> FALSE, msgs |-> 0]
    /\ sem = 1
    /\ queue = <<>>
    /\ proc = <<>>
    /\ delivered = <<>>
    /\ nmsgs = 0
    /\ ack = NoAck
    /\ rt = RetryIdle
    /\ rhist = <<>>
    /\ rsleeps = 0
    /\ fy = NoFresh

NextRetry ==
    \/ \E a \in 0..MaxAttempts : RtStart(a)
    \/ \E o \in OpOutcomes : RtInvoke(o)
    \/ RtWake

SpecRetry == InitRetry /\ [][NextRetry]_vars

\* the year rule on its own: any text of up to MaxYears numbers, any clock year
NextYear ==
    \E y_now \in ClockYears :
        \E s \in UNION {[1..n -> YearTokens] : n \in 0..MaxYears} : FreshYearCall(s, y_now)

SpecYear == InitRetry /\ [][NextYear]_vars

\* the errors the retrier is stated to retry: a rate-limit or server-error
\* status, a transport error, a timeout
StatedRetryable(e) ==
    \/ e.cls = "HTTPStatusError" /\ e.code \in {429, 500, 502, 503, 504}
    \/ e.cls \in {"TransportError", "TimeoutError"}

\* every outcome so far is a retryable error
AllRetryable == \A k \in 1..Len(rhist) : rhist[k].kind = "raise" /\ StatedRetryable(rhist[k].exc)

\* C3: with attempts >= 1 and an operation that raises a retryable error on every
\* invocation, _retry ends only after exactly `attempts` invocations, and it ends
\* by raising the error of the last invocation.
C3_ExhaustsThenRaises ==
    (RetryDone(rt) /\ rt.attempts >= 1 /\ AllRetryable)
        => /\ Len(rhist) = rt.attempts
           /\ rt.phase = "raised"
           /\ rt.exc = rhist[Len(rhist)].exc

C3_Witness ==
    /\ RetryDone(rt) /\ rt.attempts = MaxAttempts /\ AllRetryable
    /\ Len(rhist) = MaxAttempts
    /\ rhist[1].exc # rhist[Len(rhist)].exc

\* C4: a non-retryable error of the operation ends _retry at once: it is the
\* last invocation, _retry raises that very error, and no sleep follows it
\* (the sleeps so far are those after the earlier, retryable, failures).
C4_NonRetryablePropagates ==
    \A k \in 1..Len(rhist) :
        (rhist[k].kind = "raise" /\ ~StatedRetryable(rhist[k].exc))
            => /\ k = Len(rhist)
               /\ rt.phase = "raised"
               /\ rt.exc = rhist[k].exc
               /\ rsleeps = k - 1

C4_Witness ==
    /\ Len(rhist) = 1
    /\ rhist[1] = Raised(HTTPStatusError(404))
    /\ rt.phase = "raised" /\ rt.attempts = MaxAttempts /\ rsleeps = 0


(***************************************************************************)
(* Values.                                                                 *)
(***************************************************************************)
\* f"Вы спросили: {user_text}": ask_gpt without an OPENAI_API_KEY
Echo == [t |-> "echo"]

\* a completion's cleaned text: the prompt it answers and what it contains
Answer(prompt, body) == [t |-> "answer", prompt |-> prompt, body |-> body]

\* answer_legal's fixed texts: "no_sources" before any completion call,
\* "no_citation" after the model's answers lacked a citation
Refusal(why) == [t |-> "refusal", why |-> why]

NoPrompt == [kind |-> "none", nsnip |-> 0]

NoTask == [id |-> 0, text |-> "", use_live |-> FALSE, lang |-> "ru", mode |-> "none",
           entitled |-> FALSE]

(***************************************************************************)
(* Message texts, by the patterns they match, and their senders.           *)
(***************************************************************************)
\* "sum" matches no pattern; "narx" is in TIME_SENSITIVE_PATTERNS, "narx" and
\* "stavka" in _DYNAMIC_KEYWORDS, "hack" in ILLEGAL_PATTERNS
Texts == {"sum", "narx", "stavka", "hack"}

\* is_time_sensitive(q): some TIME_SENSITIVE_PATTERNS regex is found in q
is_time_sensitive(q) == q \in {"narx"}

\* FORCE_LIVE = os.getenv("FORCE_LIVE", "0") == "1"
FORCE_LIVE == FALSE

\* handle_text: use_live of a GPT-mode message
use_live(text) == FORCE_LIVE \/ is_time_sensitive(text)

\* handle_text: `any(re.search(rx, low) for rx in ILLEGAL_PATTERNS)`
MatchesIllegal(text) == text \in {"hack"}

\* the sender: uid in WHITELIST_USERS, has_active_sub(u)
Users == [in_whitelist : BOOLEAN, has_active_sub : BOOLEAN]

MutPaywalled(u) == u.in_whitelist /\ ~u.has_active_sub

\* handle_text: `if (not in_whitelist) and (not has_active_sub(u))`
Paywalled(u) == ~u.in_whitelist /\ ~u.has_active_sub

\* the message gets past the forbidden-content policy and the paywall
Admitted(text, u) == ~MatchesIllegal(text) /\ ~Paywalled(u)

(***************************************************************************)
(* URLs, as the characters the code searches.                              *)
(***************************************************************************)
LexUz == <<"l", "e", "x", ".", "u", "z">>

Scheme == <<"h", "t", "t", "p", "s", ":", "/", "/">>

UrlLex == Scheme \o LexUz \o <<"/", "d">>
UrlComplex == Scheme \o <<"c", "o", "m", "p">> \o LexUz \o <<"/", "d">>
UrlNorma == Scheme \o <<"n", "o", "r", "m", "a", ".", "u", "z">> \o <<"/", "d">>

Urls == {UrlLex, UrlComplex, UrlNorma}

\* Python's `pat in s` on strings
Contains(s, pat) ==
    \E k \in 1..(Len(s) - Len(pat) + 1) : SubSeq(s, k, k + Len(pat) - 1) = pat

\* s[:n]
Take(s, n) == SubSeq(s, 1, IF Len(s) < n THEN Len(s) ELSE n)

RECURSIVE Filter(_, _)
Filter(s, pat) ==
    IF s = <<>> THEN <<>>
    ELSE IF Contains(Head(s), pat)
         THEN <<Head(s)>> \o Filter(Tail(s), pat)
         ELSE Filter(Tail(s), pat)

\* _format_lex_results(data, limit): of the first `limit` results, those whose
\* url has "lex.uz" in it
_format_lex_results(data, limit) == Filter(Take(data.results, limit), LexUz)

(***************************************************************************)
(* Search responses.  r.json() of a 200 response is a dict: empty ({}, so  *)
(* `not data` is true) or with a "results" list; or it raises.             *)
(***************************************************************************)
Data(results) == [kind |-> "dict", empty |-> FALSE, results |-> results]
EmptyDict == [kind |-> "dict", empty |-> TRUE, results |-> <<>>]

\* Python's `not data`
Falsy(data) == data = NoVal \/ data.empty

Response(status, body) == [kind |-> "response", status |-> status, body |-> body]

Malformed == [kind |-> "malformed"]

(***************************************************************************)
(* A task's coroutine state.                                               *)
(*   pc     the await the task is suspended in                             *)
(*   fn     the composer function it is inside                             *)
(*   rs     the _retry loop it is inside                                   *)
(*   held   it is inside `async with _model_sem`, past the acquire         *)
(*   draft  _process_task's draft, out its final (a handler's reply)        *)
(* and what the properties read: posts/searches count outbound attempts of *)
(* the current client call, ncalls the completion calls of the request,    *)
(* sres the search client's last outcome, last the completion client's, or *)
(* for a cancelled composer whether it was inside the semaphore block,     *)
(* verify the outcome of the verification call, repeat whether an earlier  *)
(* job had delivered an answer to the same question when this one was      *)
(* dequeued.                                                               *)
(***************************************************************************)
NoSearch == [n |-> 0, exc |-> NoExc, out |-> [kind |-> "none"]]

\* the verification branch of _process_task was not entered
NoVerify == [kind |-> "none"]

NoCall == [fn |-> "none", posts |-> 0, exc |-> NoExc, out |-> [kind |-> "none"],
           prompt |-> NoPrompt, inflight |-> FALSE]

IdleProc ==
    [pc |-> "idle", fn |-> "none", task |-> NoTask, rs |-> RetryIdle,
     prompt |-> NoPrompt, held |-> FALSE, posts |-> 0, searches |-> 0,
     ncalls |-> 0, cutoffs |-> 0, sres |-> NoSearch, last |-> NoCall,
     draft |-> NoVal, verify |-> NoVerify, out |-> NoVal, repeat |-> FALSE]

CompletionAttempts == 3
DefaultThreshold == 3
SearchAttempts == 2
LiveMaxResults == 4
LexLimit == 5

\* the worker tasks lifespan may start: w1..w<WORKER_CONCURRENCY>
Workers == {<<"w", k>> : k \in 1..MaxWorkers}

MutStarted(w) == TRUE

\* `for i in range(WORKER_CONCURRENCY)`: the workers that were started
Started(w) == w[2] <= cfg.WORKER_CONCURRENCY
Handlers == {<<"h", k>> : k \in 1..MaxLegal}
Procs == Workers \cup Handlers

World(pr, s) == [pr |-> pr, sem |-> s]

(***************************************************************************)
(* asyncio.Semaphore, as `async with _model_sem` uses it.                  *)
(***************************************************************************)
MutSemLocked(s) == s < 0

\* Semaphore.locked(): no permit is free.  The order in which waiters are
\* woken is left open: any task waiting in acquire() may get a freed permit.
SemLocked(s) == s <= 0

\* __aenter__ got a permit: the body starts, `await _retry(..., attempts=3)`
SemAcquired(pr, s) ==
    World([pr EXCEPT !.pc = "post", !.held = TRUE,
                     !.rs = RetryBegin(CompletionAttempts)], s - 1)

\* __aexit__: release(), on every way out of the body
SemRelease(pr, s) == World([pr EXCEPT !.held = FALSE], s + 1)

\* `async with _model_sem:` reached with the request built: take a permit now,
\* or wait for one
EnterSem(pr, s, fn, prompt) ==
    LET pr1 == [pr EXCEPT !.fn = fn, !.prompt = prompt, !.posts = 0,
                          !.ncalls = pr.ncalls + 1, !.rs = RetryIdle]
    IN IF SemLocked(s)
       THEN World([pr1 EXCEPT !.pc = "acquire"], s)
       ELSE SemAcquired(pr1, s)

(***************************************************************************)
(* The callers of the composers: _process_task (wait_for, then except      *)
(* asyncio.TimeoutError / except Exception) and handle_text's legal branch.*)
(***************************************************************************)
\* _DYNAMIC_KEYWORDS: some keyword is a substring of s
HasDynamicKeyword(s) == s \in {"narx", "stavka"}

\* _looks_dynamic(t.text, draft): a keyword (or a recent year) in the question
\* or in the draft; the echo holds the question, the friendly texts hold neither
_looks_dynamic(text, draft) ==
    \/ HasDynamicKeyword(text)
    \/ draft.t = "answer" /\ HasDynamicKeyword(draft.body)

\* VERIFY_DYNAMIC = os.getenv("VERIFY_DYNAMIC", "1") == "1"
VERIFY_DYNAMIC == TRUE

\* _process_task: `if VERIFY_DYNAMIC and _looks_dynamic(t.text, draft) and TAVILY_API_KEY`
VerifyDue(text, draft) == VERIFY_DYNAMIC /\ _looks_dynamic(text, draft) /\ cfg.TAVILY_API_KEY

\* verify_with_live_sources is defined nowhere in the repository: evaluating the
\* call raises NameError before wait_for is entered, and nothing is awaited
verify_with_live_sources == Raised(NameError)

MutVerifyExcept(draft, o) ==
    IF o.kind = "raise" THEN _friendly_error_text(o.exc, "ru") ELSE o.val

\* `try: final = await asyncio.wait_for(...)` / `except Exception: pass`
VerifyExcept(draft, o) == IF o.kind = "raise" THEN draft ELSE o.val

MutVerification(pr, draft) ==
    IF VerifyDue(pr.task.text, draft)
    THEN [pr EXCEPT !.pc = "search", !.fn = "live", !.draft = draft, !.out = draft,
                    !.rs = RetryBegin(2)]
    ELSE [pr EXCEPT !.pc = "send", !.draft = draft, !.out = draft]

\* _process_task from `final = draft` to the send
Verification(pr, draft) ==
    IF VerifyDue(pr.task.text, draft)
    THEN [pr EXCEPT !.pc = "send", !.draft = draft,
                    !.verify = verify_with_live_sources,
                    !.out = VerifyExcept(draft, verify_with_live_sources)]
    ELSE [pr EXCEPT !.pc = "send", !.draft = draft, !.out = draft]

MutComposerDone(pr, outcome) ==
    LET text == IF outcome.kind = "return"
                THEN outcome.val
                ELSE _friendly_error_text(outcome.exc, pr.task.lang)
        pr1 == [pr EXCEPT !.fn = "none", !.rs = RetryIdle,
                          !.prompt = NoPrompt, !.posts = 0, !.searches = 0]
    IN IF outcome.kind = "raise"
       THEN [pr EXCEPT !.out = text]
       ELSE IF pr.task.mode = "gpt"
            THEN Verification(pr1, text)
            ELSE [pr1 EXCEPT !.pc = "send", !.out = text]

\* the composer is over: the worker has its draft and goes on to the
\* verification branch, the legal handler has its reply; next await: the send
ComposerDone(pr, outcome) ==
    LET text == IF outcome.kind = "return"
                THEN outcome.val
                ELSE _friendly_error_text(outcome.exc, pr.task.lang)
        pr1 == [pr EXCEPT !.fn = "none", !.rs = RetryIdle,
                          !.prompt = NoPrompt, !.posts = 0, !.searches = 0]
    IN IF pr.task.mode = "gpt"
       THEN Verification(pr1, text)
       ELSE [pr1 EXCEPT !.pc = "send", !.out = text]

\* a completion client call (ask_gpt, answer_with_live_search, answer_legal)
\* ends: exc is the failure its try block saw, outcome what its caller gets
FinishCall(pr, s, exc, outcome) ==
    World(ComposerDone([pr EXCEPT !.last = [fn |-> pr.fn, posts |-> pr.posts,
                                             exc |-> exc, out |-> outcome,
                                             prompt |-> pr.prompt,
                                             inflight |-> FALSE]],
                       outcome), s)

MutCompletionExcept(e, lang) ==
    IF IsHTTPError(e) THEN Returned(_friendly_error_text(e, lang)) ELSE Raised(e)

\* `except Exception as e: ... return _friendly_error_text(e, lang)`
CompletionExcept(e, lang) == Returned(_friendly_error_text(e, lang))

FailCall(pr, s, e) == FinishCall(pr, s, e, CompletionExcept(e, pr.task.lang))

(***************************************************************************)
(* ask_gpt, answer_with_live_search, answer_legal up to their first await. *)
(***************************************************************************)
PlainPrompt == [kind |-> "plain", nsnip |-> 0]

ask_gpt(pr, s) ==
    IF ~cfg.OPENAI_API_KEY
    THEN FinishCall([pr EXCEPT !.fn = "ask_gpt", !.prompt = PlainPrompt],
                    s, NoExc, Returned(Echo))
    ELSE EnterSem(pr, s, "ask_gpt", PlainPrompt)

\* web_search_tavily / legal_search_lex reach `await _retry(..., attempts=2)`
StartSearch(pr, s, fn) ==
    World([pr EXCEPT !.pc = "search", !.fn = fn, !.searches = 0, !.posts = 0,
                     !.prompt = NoPrompt, !.sres = NoSearch,
                     !.rs = RetryBegin(SearchAttempts)], s)

answer_with_live_search(pr, s) ==
    IF ~cfg.TAVILY_API_KEY
    THEN ask_gpt([pr EXCEPT !.sres = [n |-> 0, exc |-> NoExc, out |-> Returned(NoVal)]], s)
    ELSE StartSearch(pr, s, "live")

answer_legal(pr, s) ==
    IF ~cfg.TAVILY_API_KEY
    THEN FinishCall([pr EXCEPT !.fn = "legal",
                               !.sres = [n |-> 0, exc |-> NoExc, out |-> Returned(NoVal)]],
                    s, NoExc, Returned(Refusal("no_sources")))
    ELSE StartSearch(pr, s, "legal")

(***************************************************************************)
(* The search client's result reaches the composer.                        *)
(***************************************************************************)
\* answer_with_live_search: `if not data`
LiveFallsBack(data) == Falsy(data)

MutSnippets(data) == Take(data.results, 1)

\* answer_with_live_search: one snippet for each of `results[:4]`
Snippets(data) == Take(data.results, LiveMaxResults)

AfterSearch(pr, s, data) ==
    IF pr.fn = "live"
    THEN IF LiveFallsBack(data)
         THEN ask_gpt(pr, s)
         ELSE EnterSem(pr, s, "live",
                       [kind |-> "augmented",
                        nsnip |-> Len(Snippets(data))])
    ELSE LET sources == IF ~Falsy(data) THEN _format_lex_results(data, LexLimit) ELSE <<>>
         IN IF sources = <<>>
            THEN FinishCall(pr, s, NoExc, Returned(Refusal("no_sources")))
            ELSE EnterSem(pr, s, "legal", [kind |-> "legal", nsnip |-> Len(sources)])

MutSearchExcept(e) == IF IsHTTPError(e) THEN Returned(NoVal) ELSE Raised(e)

\* `except Exception as e: logging.warning(...); return None`
SearchExcept(e) == Returned(NoVal)

\* the search client returns: exc is the failure its try block saw
SearchReturn(pr, s, exc, outcome) ==
    LET pr1 == [pr EXCEPT !.sres = [n |-> pr.searches, exc |-> exc, out |-> outcome],
                          !.rs = RetryIdle]
    IN IF outcome.kind = "return"
       THEN AfterSearch(pr1, s, outcome.val)
       ELSE FinishCall(pr1, s, outcome.exc, outcome)

\* r.raise_for_status(); return r.json()
SearchParse(r) ==
    IF r.status >= 400 THEN Raised(HTTPStatusError(r.status))
    ELSE IF r.body = Malformed THEN Raised(OtherError)
    ELSE Returned(r.body)

\* an `await client_http.post(...)` of the search client finished with o
SearchDone(pr, s, o) ==
    LET rs1 == RetryOnOutcome(pr.rs, o)
        pr1 == [pr EXCEPT !.rs = rs1, !.searches = pr.searches + 1]
    IN IF rs1.phase = "sleep" THEN World([pr1 EXCEPT !.pc = "ssleep"], s)
       ELSE IF rs1.phase = "raised"
            THEN SearchReturn(pr1, s, rs1.exc, SearchExcept(rs1.exc))
            ELSE LET got == SearchParse(rs1.val)
                 IN IF got.kind = "raise"
                    THEN SearchReturn(pr1, s, got.exc, SearchExcept(got.exc))
                    ELSE SearchReturn(pr1, s, NoExc, got)

\* the search client's backoff sleep finished
SearchWoke(pr, s) ==
    LET rs1 == RetryOnWake(pr.rs)
        pr1 == [pr EXCEPT !.rs = rs1]
    IN IF rs1.phase = "call" THEN World([pr1 EXCEPT !.pc = "search"], s)
       ELSE IF rs1.phase = "raised"
            THEN SearchReturn(pr1, s, rs1.exc, SearchExcept(rs1.exc))
            ELSE SearchReturn(pr1, s, NoExc, Returned(NoVal))


(***************************************************************************)
(* The completion client's `async with _model_sem: r = await _retry(...)`  *)
(* and what follows it inside the try block.                               *)
(***************************************************************************)
\* _sanitize_cutoff: the cutoff phrase is cut out of the text
_sanitize_cutoff(body) == IF body = "cutoff" THEN "plain" ELSE body

\* a legal answer's text: the link it holds (none: <<>>) and whether it names
\* an article or clause by number
LinkOf(body) ==
    IF body \in {"cited", "cited_notfound"} THEN UrlLex
    ELSE IF body = "cited_complex" THEN UrlComplex
    ELSE <<>>

HasArticle(body) == body \in {"cited", "cited_notfound", "cited_complex"}

\* _legal_answer_has_citations: `"lex.uz" in ans` and an article number
_legal_answer_has_citations(body) == Contains(LinkOf(body), LexUz) /\ HasArticle(body)

\* "Норма не найдена" in ans
SaysNotFound(body) == body \in {"notfound", "cited_notfound"}

StrictPrompt(pr) == [kind |-> "strict", nsnip |-> pr.prompt.nsnip]

MutCompleted(pr, s, body) ==
    IF pr.fn = "ask_gpt"
    THEN IF body = "cutoff" /\ cfg.TAVILY_API_KEY
         THEN answer_with_live_search([pr EXCEPT !.cutoffs = pr.cutoffs + 1], s)
         ELSE FinishCall(pr, s, NoExc, Returned(Answer(pr.prompt, _sanitize_cutoff(body))))
    ELSE IF pr.fn = "live"
    THEN IF body = "cutoff"
         THEN ask_gpt(pr, s)
         ELSE FinishCall(pr, s, NoExc, Returned(Answer(pr.prompt, _sanitize_cutoff(body))))
    ELSE FinishCall(pr, s, NoExc, Returned(Answer(pr.prompt, body)))

\* the response parsed to the model's text `body`
Completed(pr, s, body) ==
    IF pr.fn = "ask_gpt"
    THEN IF body = "cutoff" /\ cfg.TAVILY_API_KEY
         THEN answer_with_live_search([pr EXCEPT !.cutoffs = pr.cutoffs + 1], s)
         ELSE FinishCall(pr, s, NoExc, Returned(Answer(pr.prompt, _sanitize_cutoff(body))))
    ELSE IF pr.fn = "live"
    THEN FinishCall(pr, s, NoExc, Returned(Answer(pr.prompt, _sanitize_cutoff(body))))
    ELSE IF ~_legal_answer_has_citations(body) /\ pr.prompt.kind = "legal"
         THEN EnterSem(pr, s, "legal", StrictPrompt(pr))
         ELSE IF ~_legal_answer_has_citations(body) \/ SaysNotFound(body)
              THEN FinishCall(pr, s, NoExc, Returned(Refusal("no_citation")))
              ELSE FinishCall(pr, s, NoExc, Returned(Answer(pr.prompt, body)))

\* r.raise_for_status(); r.json()["choices"][0]["message"]["content"]
CompletionParse(r) ==
    IF r.status >= 400 THEN Raised(HTTPStatusError(r.status))
    ELSE IF r.body = "malformed" THEN Raised(OtherError)
    ELSE Returned(r.body)

MutPostOver(pr, s, rs1) ==
    LET w == World(pr, s)
    IN IF rs1.phase = "raised"
       THEN FailCall(w.pr, w.sem, rs1.exc)
       ELSE LET got == CompletionParse(rs1.val)
            IN IF got.kind = "raise"
               THEN FailCall(w.pr, w.sem, got.exc)
               ELSE Completed(w.pr, w.sem, got.val)

\* _retry is over, the `async with` block is left and the permit released
PostOver(pr, s, rs1) ==
    LET w == SemRelease(pr, s)
    IN IF rs1.phase = "raised"
       THEN FailCall(w.pr, w.sem, rs1.exc)
       ELSE LET got == CompletionParse(rs1.val)
            IN IF got.kind = "raise"
               THEN FailCall(w.pr, w.sem, got.exc)
               ELSE Completed(w.pr, w.sem, got.val)

\* an `await client_openai.post(...)` finished with o
PostDone(pr, s, o) ==
    LET rs1 == RetryOnOutcome(pr.rs, o)
        pr1 == [pr EXCEPT !.rs = rs1, !.posts = pr.posts + 1]
    IN IF rs1.phase = "sleep"
       THEN World([pr1 EXCEPT !.pc = "psleep"], s)
       ELSE PostOver(pr1, s, rs1)

\* the completion client's backoff sleep finished
PostWoke(pr, s) ==
    LET rs1 == RetryOnWake(pr.rs)
        pr1 == [pr EXCEPT !.rs = rs1]
    IN IF rs1.phase = "call"
       THEN World([pr1 EXCEPT !.pc = "post"], s)
       ELSE PostOver(pr1, s, rs1)

MutCancelledTakes(pr, s) ==
    IF pr.held THEN SemRelease(pr, s)
    ELSE IF pr.pc = "acquire" THEN World(pr, s - 1)
    ELSE World(pr, s)

MutCancelled(pr, s) == World([pr EXCEPT !.held = FALSE], s)

\* CancelledError thrown into the composer by wait_for: `async with` releases
\* the permit if the task is past the acquire
Cancelled(pr, s) == IF pr.held THEN SemRelease(pr, s) ELSE World(pr, s)

(***************************************************************************)
(* Actions.                                                                *)
(***************************************************************************)
NoRetrier == UNCHANGED <<rt, rhist, rsleeps, fy>>

MutAwaiting == {"search", "ssleep", "acquire", "psleep"}

\* the awaits of a composer, all of them inside asyncio.wait_for
Awaiting == {"search", "ssleep", "acquire", "post", "psleep"}

Step(p, w) ==
    /\ proc' = [proc EXCEPT ![p] = w.pr]
    /\ sem' = w.sem

\* _queue_worker: after `await _process_task(t)` it runs SAVOL_QUEUE.task_done()
\* and loops; no clock is read and no service time is stored anywhere
ServiceTimeObservations == 0

MutEtaLearns(queue_size) ==
    LET eta == ((6 + Len(delivered)) * queue_size) \div cfg.WORKER_CONCURRENCY
    IN IF eta < 3 THEN 3 ELSE eta

MutEtaWraps(queue_size) ==
    LET eta == ((6 * queue_size) % 16) \div cfg.WORKER_CONCURRENCY
    IN IF eta < 3 THEN 3 ELSE eta

MutEtaSeconds(queue_size) ==
    LET eta == (6 * (queue_size - 1)) \div cfg.WORKER_CONCURRENCY
    IN IF eta < 3 THEN 3 ELSE eta

\* _eta_seconds(queue_size): 6 seconds per queued task and worker, at least 3;
\* int() of the non-negative quotient is its floor
_eta_seconds(queue_size) ==
    LET per_item == 6
        workers == IF cfg.WORKER_CONCURRENCY < 1 THEN 1 ELSE cfg.WORKER_CONCURRENCY
        eta == (per_item * queue_size) \div workers
    IN IF eta < 3 THEN 3 ELSE eta

MutNoticeDue(pos) == pos > cfg.QUEUE_NOTICE_THRESHOLD

\* handle_text: `if pos >= QUEUE_NOTICE_THRESHOLD`
NoticeDue(pos) == pos >= cfg.QUEUE_NOTICE_THRESHOLD

\* handle_text: the text answered to the sender after put_nowait, pos being
\* SAVOL_QUEUE.qsize() read right after it
Acknowledge(pos) ==
    IF NoticeDue(pos)
    THEN [kind |-> "notice", pos |-> pos, eta |-> _eta_seconds(pos)]
    ELSE [kind |-> "generic", pos |-> 0, eta |-> 0]

\* the server takes webhooks: lifespan has not run its shutdown
Serving == \A w \in Workers : proc[w].pc # "stopped"

\* SAVOL_QUEUE = asyncio.Queue(): maxsize is left at its default, 0
QueueMaxsize == 0

\* Queue.full(): never, when maxsize <= 0
QueueFull(q) == QueueMaxsize > 0 /\ Len(q) >= QueueMaxsize

MutEnqueuedNowhere(q, t) == q

MutEnqueued(q, t) == <<t>> \o q

\* SAVOL_QUEUE.put_nowait(task): the task goes to the tail
Enqueued(q, t) == Append(q, t)

\* handle_text, GPT mode: the question becomes a SavolTask on the queue
HandleTextQueue(lang, text, u) ==
    /\ Serving
    /\ nmsgs < cfg.msgs
    /\ Admitted(text, u)
    /\ ~QueueFull(queue)
    /\ nmsgs' = nmsgs + 1
    /\ queue' = Enqueued(queue, [id |-> nmsgs + 1, text |-> text,
                                 use_live |-> use_live(text), lang |-> lang,
                                 mode |-> "gpt",
                                 entitled |-> u.in_whitelist \/ u.has_active_sub])
    /\ ack' = Acknowledge(Len(queue'))
    /\ UNCHANGED <<cfg, sem, proc, delivered>>
    /\ NoRetrier

\* handle_text, legal mode: answer_legal runs in the handler, under wait_for
HandleTextLegal(h, lang, text, u) ==
    /\ Serving
    /\ nmsgs < cfg.msgs
    /\ Admitted(text, u)
    /\ proc[h].pc = "idle"
    /\ nmsgs' = nmsgs + 1
    /\ Step(h, answer_legal([IdleProc EXCEPT
                                !.task = [id |-> nmsgs + 1, text |-> text, use_live |-> TRUE,
                                          lang |-> lang, mode |-> "legal",
                                          entitled |-> u.in_whitelist \/ u.has_active_sub]],
                            sem))
    /\ UNCHANGED <<cfg, queue, delivered, ack>>
    /\ NoRetrier

\* handle_text, forbidden content: the deny text is answered, nothing else
HandleTextDeny(text) ==
    /\ Serving
    /\ nmsgs < cfg.msgs
    /\ MatchesIllegal(text)
    /\ nmsgs' = nmsgs + 1
    /\ ack' = [kind |-> "deny", pos |-> 0, eta |-> 0]
    /\ UNCHANGED <<cfg, sem, queue, proc, delivered>>
    /\ NoRetrier

\* handle_text, paywall: the payment offer is answered, nothing else
HandleTextPaywall(text, u) ==
    /\ Serving
    /\ nmsgs < cfg.msgs
    /\ ~MatchesIllegal(text)
    /\ Paywalled(u)
    /\ nmsgs' = nmsgs + 1
    /\ ack' = [kind |-> "paywall", pos |-> 0, eta |-> 0]
    /\ UNCHANGED <<cfg, sem, queue, proc, delivered>>
    /\ NoRetrier

MutUsesLive(t) == cfg.TAVILY_API_KEY

\* _process_task: `if t.use_live and TAVILY_API_KEY`
UsesLive(t) == t.use_live /\ cfg.TAVILY_API_KEY

MutGot(q) == q[Len(q)]

\* SAVOL_QUEUE.get(): the task it returns is the one at the head
Got(q) == Head(q)

MutDequeued(q) == q

\* SAVOL_QUEUE.get(): the head leaves the queue
Dequeued(q) == Tail(q)

\* a job's answer to the question `text` has been delivered
Answered(text) ==
    \E k \in 1..Len(delivered) : delivered[k].mode = "gpt" /\ delivered[k].text = text

MutProcessTask(pr, s) ==
    IF pr.repeat THEN World(ComposerDone(pr, Returned(Echo)), s)
    ELSE IF UsesLive(pr.task) THEN answer_with_live_search(pr, s)
    ELSE ask_gpt(pr, s)

\* _process_task up to its first await: the draft's composer is entered
_process_task(pr, s) ==
    IF UsesLive(pr.task) THEN answer_with_live_search(pr, s) ELSE ask_gpt(pr, s)

\* _queue_worker: SAVOL_QUEUE.get() returns, _process_task runs to its first await
WorkerGet(w) ==
    /\ proc[w].pc = "idle"
    /\ queue # <<>>
    /\ Started(w)
    /\ queue' = Dequeued(queue)
    /\ LET t == Got(queue)
           pr == [IdleProc EXCEPT !.task = t, !.repeat = Answered(t.text)]
       IN Step(w, _process_task(pr, sem))
    /\ UNCHANGED <<cfg, delivered, nmsgs, ack>>
    /\ NoRetrier

\* a task waiting in _model_sem.acquire() gets a permit
Acquire(p) ==
    /\ proc[p].pc = "acquire"
    /\ ~SemLocked(sem)
    /\ Step(p, SemAcquired(proc[p], sem))
    /\ UNCHANGED <<cfg, queue, delivered, nmsgs, ack>>
    /\ NoRetrier

SearchResponse(p, o) ==
    /\ proc[p].pc = "search"
    /\ Step(p, SearchDone(proc[p], sem, o))
    /\ UNCHANGED <<cfg, queue, delivered, nmsgs, ack>>
    /\ NoRetrier

SearchWake(p) ==
    /\ proc[p].pc = "ssleep"
    /\ Step(p, SearchWoke(proc[p], sem))
    /\ UNCHANGED <<cfg, queue, delivered, nmsgs, ack>>
    /\ NoRetrier

IsCutoffReply(o) == o.kind = "return" /\ o.val.status = 200 /\ o.val.body = "cutoff"

PostResponse(p, o) ==
    /\ proc[p].pc = "post"
    /\ (IsCutoffReply(o) /\ proc[p].fn = "ask_gpt") => proc[p].cutoffs < MaxCutoff
    /\ Step(p, PostDone(proc[p], sem, o))
    /\ UNCHANGED <<cfg, queue, delivered, nmsgs, ack>>
    /\ NoRetrier

PostWake(p) ==
    /\ proc[p].pc = "psleep"
    /\ Step(p, PostWoke(proc[p], sem))
    /\ UNCHANGED <<cfg, queue, delivered, nmsgs, ack>>
    /\ NoRetrier

\* asyncio.wait_for's timeout fires while the composer is suspended
Timeout(p) ==
    /\ proc[p].pc \in Awaiting
    /\ LET w == Cancelled(proc[p], sem)
           pr == [w.pr EXCEPT !.last = [NoCall EXCEPT !.out = [kind |-> "cancelled"],
                                                       !.inflight = proc[p].held]]
       IN Step(p, World(ComposerDone(pr, Raised(TimeoutError)), w.sem))
    /\ UNCHANGED <<cfg, queue, delivered, nmsgs, ack>>
    /\ NoRetrier

\* bot.send_message / safe_answer; the worker then loops to SAVOL_QUEUE.get()
Send(p) ==
    /\ proc[p].pc = "send"
    /\ delivered' = Append(delivered, [id |-> proc[p].task.id, mode |-> proc[p].task.mode,
                                       text |-> proc[p].task.text])
    /\ proc' = [proc EXCEPT ![p] = IdleProc]
    /\ UNCHANGED <<cfg, sem, queue, nmsgs, ack>>
    /\ NoRetrier

(***************************************************************************)
(* What the services answer.                                               *)
(***************************************************************************)
SeqsUpTo(S, n) == UNION {[1..k -> S] : k \in 0..n}

\* a service's behaviours: status codes of error responses, exceptions of the
\* call, and the bodies of a 200 response (to a legal prompt, to another
\* prompt, to a lex.uz search, to a web search)
PostOutcomes(p, sv) ==
    {Returned(Response(200, b)) :
        b \in IF proc[p].fn = "legal" THEN sv.legal ELSE sv.gpt}
        \cup {Returned(Response(c, "malformed")) : c \in sv.codes}
        \cup {Raised(e) : e \in sv.excs}

SearchOutcomes(p, sv) ==
    {Returned(Response(200, b)) :
        b \in IF proc[p].fn = "legal" THEN sv.lex ELSE sv.web}
        \cup {Returned(Response(c, Malformed)) : c \in sv.codes}
        \cup {Raised(e) : e \in sv.excs}

InitWith(msgs, keys, workers, thresholds) ==
    /\ cfg \in [MODEL_CONCURRENCY : 1..MaxPermits, WORKER_CONCURRENCY : workers,
                QUEUE_NOTICE_THRESHOLD : thresholds,
                TAVILY_API_KEY : keys, OPENAI_API_KEY : keys, msgs : {msgs}]
    /\ sem = cfg.MODEL_CONCURRENCY
    /\ queue = <<>>
    /\ proc = [p \in Procs |-> IdleProc]
    /\ delivered = <<>>
    /\ nmsgs = 0
    /\ ack = NoAck
    /\ rt = RetryIdle
    /\ rhist = <<>>
    /\ rsleeps = 0
    /\ fy = NoFresh

HandleTexts(langs, texts, users) ==
    \/ \E l \in langs, t \in texts, u \in users : HandleTextQueue(l, t, u)
    \/ \E h \in Handlers, l \in langs, t \in texts, u \in users : HandleTextLegal(h, l, t, u)

HandleTextRejects(texts, users) ==
    \/ \E t \in texts : HandleTextDeny(t)
    \/ \E t \in texts, u \in users : HandleTextPaywall(t, u)

\* under load the questions are a plain one and a time-sensitive one, from a
\* subscriber
LoadTexts == {"sum", "narx"}

Subscribers == {u \in Users : ~u.in_whitelist /\ u.has_active_sub}

SearchResponses(sv) ==
    \E p \in Procs : \E o \in SearchOutcomes(p, sv) : SearchResponse(p, o)

PostResponses(sv) ==
    \E p \in Procs : \E o \in PostOutcomes(p, sv) : PostResponse(p, o)

Resume ==
    \/ \E w \in Workers : WorkerGet(w)
    \/ \E p \in Procs : SearchWake(p)
    \/ \E p \in Procs : PostWake(p)
    \/ \E p \in Procs : Timeout(p)
    \/ \E p \in Procs : Send(p)

\* the pipeline under load: MaxMsgs messages, both API keys set, services that
\* answer or drop the connection
LoadServices ==
    [codes |-> {}, excs |-> {TransportError},
     gpt |-> {"plain"}, legal |-> {"cited", "uncited"},
     web |-> {Data(<<UrlNorma>>)}, lex |-> {Data(<<UrlLex>>)}]

Init == InitWith(MaxMsgs, {TRUE}, 1..MaxWorkers, {DefaultThreshold})

Next ==
    \/ HandleTexts({"ru"}, LoadTexts, Subscribers)
    \/ \E p \in Procs : Acquire(p)
    \/ SearchResponses(LoadServices)
    \/ PostResponses(LoadServices)
    \/ Resume

Spec == Init /\ [][Next]_vars

\* What the event loop guarantees, whatever the services do: wait_for's timer
\* fires on a composer that is still suspended, the send to Telegram ends (the
\* bot's own request timeout), and a worker idle in SAVOL_QUEUE.get() is woken
\* when the queue has a task.  No response of a service is ever guaranteed.
Fairness ==
    /\ \A p \in Procs : WF_vars(Timeout(p))
    /\ \A p \in Procs : WF_vars(Send(p))
    /\ \A w \in Workers : WF_vars(WorkerGet(w))

FairSpec == Init /\ [][Next]_vars /\ Fairness

\* lifespan's shutdown: `t.cancel()` for every worker task, then gather.  Each
\* worker gets CancelledError at the await it is suspended in (a permit it
\* holds is released by `async with`), runs `finally: task_done()` and ends.
\* SAVOL_QUEUE is left as it is and dies with the process.
Shutdown ==
    /\ Serving
    /\ LET stopping == {w \in Workers : Started(w)}
           freed == Cardinality({w \in stopping : proc[w].held})
       IN /\ proc' = [p \in Procs |->
                         IF p \in stopping
                         THEN [IdleProc EXCEPT !.pc = "stopped", !.task = proc[p].task]
                         ELSE proc[p]]
          /\ sem' = sem + freed
    /\ UNCHANGED <<cfg, queue, delivered, nmsgs, ack>>
    /\ NoRetrier

NextStop ==
    \/ Next
    \/ Shutdown

FairStopSpec == Init /\ [][NextStop]_vars /\ Fairness

\* the queue on its own: no API key is set, so a job's draft is ask_gpt's echo
\* and a legal request gets the no-source text, both without any outbound call
InitQueue == InitWith(MaxQueueMsgs, {FALSE}, 1..MaxWorkers, 0..MaxThreshold)

NextQueue ==
    \/ HandleTexts({"ru"}, LoadTexts, Subscribers)
    \/ \E w \in Workers : WorkerGet(w)
    \/ \E p \in Procs : Send(p)

SpecQueue == InitQueue /\ [][NextQueue]_vars

\* services that always answer, and in time: every response is a 200 with a
\* well-formed, non-empty body, and no wait_for timeout fires
HealthyServices ==
    [codes |-> {}, excs |-> {},
     gpt |-> {"plain", "narx"}, legal |-> {"cited"},
     web |-> {Data(<<UrlNorma>>)}, lex |-> {Data(<<UrlLex>>)}]

InitHealthy == InitWith(MaxMsgs, {TRUE}, 1..MaxWorkers, {DefaultThreshold})

NextHealthy ==
    \/ HandleTexts({"ru"}, Texts, Subscribers)
    \/ \E p \in Procs : Acquire(p)
    \/ SearchResponses(HealthyServices)
    \/ PostResponses(HealthyServices)
    \/ \E w \in Workers : WorkerGet(w)
    \/ \E p \in Procs : Send(p)

SpecHealthy == InitHealthy /\ [][NextHealthy]_vars

\* the nested completion paths under contention: services that always answer,
\* the completion service also with a "knowledge cutoff" text or an uncited
\* legal answer, so that one request makes a second completion call
NestedServices ==
    [codes |-> {}, excs |-> {},
     gpt |-> {"plain", "cutoff"}, legal |-> {"cited", "uncited"},
     web |-> {Data(<<UrlNorma>>), EmptyDict}, lex |-> {Data(<<UrlLex>>)}]

NextNested ==
    \/ HandleTexts({"ru"}, LoadTexts, Subscribers)
    \/ \E p \in Procs : Acquire(p)
    \/ SearchResponses(NestedServices)
    \/ PostResponses(NestedServices)
    \/ \E w \in Workers : WorkerGet(w)
    \/ \E p \in Procs : Send(p)

SpecNested == Init /\ [][NextNested]_vars

\* one request per behaviour, any configuration of the keys, every kind of
\* answer and failure of the services
AllServices ==
    [codes |-> StatusCodes, excs |-> {TransportError, TimeoutError, OtherError},
     gpt |-> {"plain", "narx", "cutoff", "malformed"},
     legal |-> {"cited", "uncited", "cited_notfound", "cited_complex", "malformed"},
     web |-> {Data([k \in 1..n |-> UrlNorma]) : n \in 0..MaxWebResults}
                \cup {EmptyDict, Malformed},
     lex |-> {Data(r) : r \in SeqsUpTo(Urls, MaxResults)} \cup {EmptyDict, Malformed}]

InitCall == InitWith(1, BOOLEAN, {MaxWorkers}, {DefaultThreshold})

NextCall ==
    \/ HandleTexts(Langs, Texts, Users)
    \/ HandleTextRejects(Texts, Users)
    \/ SearchResponses(AllServices)
    \/ PostResponses(AllServices)
    \/ Resume

SpecCall == InitCall /\ [][NextCall]_vars


(***************************************************************************)
(* Properties.                                                             *)
(***************************************************************************)
\* tasks inside a semaphore-guarded section: past `async with _model_sem`,
\* awaiting the post or the retrier's sleep
InFlight == {p \in Procs : proc[p].pc \in {"post", "psleep"}}

\* C1: at most MODEL_CONCURRENCY completion calls are in flight, workers' and
\* legal handlers' calls counted together.
C1_AtMostNInFlight == Cardinality(InFlight) <= cfg.MODEL_CONCURRENCY

C1_Witness ==
    \E h \in Handlers, w \in Workers :
        /\ h \in InFlight
        /\ proc[w].pc = "acquire"
        /\ Cardinality(InFlight) = cfg.MODEL_CONCURRENCY

\* C2: free permits plus permits held by in-flight calls is MODEL_CONCURRENCY,
\* however the calls ended (return, exception out of the retrier, cancellation
\* by wait_for); so with no call in flight every permit is free.
C2_PermitsConserved ==
    /\ sem >= 0
    /\ sem + Cardinality(InFlight) = cfg.MODEL_CONCURRENCY

C2_Witness ==
    \E p, q \in Procs :
        /\ proc[p].pc = "send" /\ proc[p].last.out.kind = "cancelled" /\ proc[p].last.inflight
        /\ proc[q].pc = "send" /\ proc[q].last.exc = TransportError
        /\ InFlight = {} /\ sem = cfg.MODEL_CONCURRENCY

\* a completion client call of p has ended (not by cancellation)
CallEnded(p) == proc[p].pc = "send" /\ proc[p].last.out.kind \in {"return", "raise"}

\* C5: a completion request answered with 429 or 500/502/503/504 is retried:
\* the client gives up with the friendly error only after 3 outbound attempts.
C5_StatusIsRetried ==
    \A p \in Procs :
        (/\ CallEnded(p)
         /\ proc[p].last.exc.cls = "HTTPStatusError"
         /\ proc[p].last.exc.code \in RetryableCodes)
            => proc[p].last.posts = CompletionAttempts

IsFriendly(v) == "t" \in DOMAIN v /\ v.t = "friendly"

\* C6: ask_gpt and answer_with_live_search end by returning a value, never by
\* raising; when the outbound call failed the value is a friendly error text.
C6_ClientNeverRaises ==
    \A p \in Procs :
        (proc[p].pc = "send" /\ proc[p].last.fn \in {"ask_gpt", "live"})
            => /\ proc[p].last.out.kind = "return"
               /\ proc[p].last.exc # NoExc => IsFriendly(proc[p].last.out.val)

C6_Witness ==
    \E p \in Procs :
        /\ CallEnded(p) /\ proc[p].last.fn = "live"
        /\ proc[p].last.exc = OtherError
        /\ IsFriendly(proc[p].last.out.val)

\* the message class stated for a failure
ClaimedKey(e) ==
    IF e.cls = "HTTPStatusError"
    THEN IF e.code = 429 THEN "429"
         ELSE IF e.code = 401 THEN "401"
         ELSE IF e.code = 402 THEN "402"
         ELSE IF 500 <= e.code /\ e.code <= 599 THEN "5xx"
         ELSE "generic"
    ELSE IF e.cls \in {"TransportError", "TimeoutError"} THEN "timeout"
    ELSE "generic"

\* C7: the friendly text is chosen by the failure's class: 429, 401, 402, 5xx,
\* timeout for a transport error or timeout, generic for everything else,
\* HTTP client-error statuses such as 400/403/404 included.
C7_FriendlyByClass ==
    \A p \in Procs :
        (CallEnded(p) /\ proc[p].last.exc # NoExc /\ proc[p].last.out.kind = "return")
            => proc[p].last.out.val.key = ClaimedKey(proc[p].last.exc)

\* the search client of p has returned
SearchEnded(p) == proc[p].sres.out.kind \in {"return", "raise"}

\* C8: the search client makes at most 2 outbound attempts, never raises, and
\* returns None when its call failed.
C8_SearchNeverRaises ==
    \A p \in Procs :
        /\ proc[p].searches <= SearchAttempts
        /\ SearchEnded(p)
            => /\ proc[p].sres.out.kind = "return"
               /\ proc[p].sres.n <= SearchAttempts
               /\ proc[p].sres.exc # NoExc => proc[p].sres.out.val = NoVal

C8_Witness ==
    \E p \in Procs :
        /\ SearchEnded(p)
        /\ proc[p].sres.exc = OtherError /\ proc[p].sres.n = SearchAttempts
        /\ proc[p].sres.out = Returned(NoVal)

\* the search of p failed (None) or came back with no result
SearchGaveNothing(p) ==
    /\ SearchEnded(p)
    /\ proc[p].sres.out.kind = "return"
    /\ \/ proc[p].sres.out.val = NoVal
       \/ proc[p].sres.out.val.results = <<>>

\* C9: in the plain mode, after a search that failed or returned zero results,
\* the draft comes from a non-augmented completion call, and when that call
\* succeeds the worker has an answer, not an error.
C9_DegradesToPlain ==
    \A w \in Workers :
        SearchGaveNothing(w)
            => /\ proc[w].pc \in {"acquire", "post", "psleep"}
                    => proc[w].prompt.kind = "plain"
               /\ CallEnded(w)
                    => /\ proc[w].last.prompt.kind = "plain"
                       /\ proc[w].last.exc = NoExc => proc[w].out.t \in {"answer", "echo"}

\* the host of a URL, and whether it is the domain or one of its subdomains
AfterScheme(u) == SubSeq(u, Len(Scheme) + 1, Len(u))

HostLen(s) ==
    IF \E k \in 1..Len(s) : s[k] = "/"
    THEN (CHOOSE k \in 1..Len(s) : s[k] = "/" /\ \A j \in 1..(k - 1) : s[j] # "/") - 1
    ELSE Len(s)

Host(u) == SubSeq(AfterScheme(u), 1, HostLen(AfterScheme(u)))

EndsWith(s, suf) == Len(s) >= Len(suf) /\ SubSeq(s, Len(s) - Len(suf) + 1, Len(s)) = suf

InDomain(u, dom) == Host(u) = dom \/ EndsWith(Host(u), <<".">> \o dom)

\* the search of p yielded no result in the lex.uz domain (or failed)
NoLexResult(p) ==
    /\ SearchEnded(p)
    /\ proc[p].sres.out.kind = "return"
    /\ \/ proc[p].sres.out.val = NoVal
       \/ \A k \in 1..Len(proc[p].sres.out.val.results) :
              ~InDomain(proc[p].sres.out.val.results[k], LexUz)

\* C10: in the legal variant, a search with no result in the allowlisted
\* domain ends the request with the fixed no-source text and without any
\* completion call: the semaphore is not even approached.
C10_NoSourceNoCompletion ==
    \A h \in Handlers :
        NoLexResult(h)
            => /\ proc[h].ncalls = 0
               /\ proc[h].pc = "send"
               /\ proc[h].out = Refusal("no_sources")

\* the job p is processing has reached the search service
SearchMade(p) == proc[p].pc \in {"search", "ssleep"} \/ proc[p].sres.n >= 1

\* a queued job whose search flag is unset and whose text is not time-sensitive
PlainJob(w) == proc[w].task.mode = "gpt" /\ ~proc[w].task.use_live

\* C11 (as stated): a job with the search flag unset and a question that is not
\* time-sensitive makes no search call, whatever the completion's text.
C11_NoSearchForPlainJob ==
    \A w \in Workers : PlainJob(w) => ~SearchMade(w)

\* C11 (amended): such a job makes a search call only after a completion whose
\* text has the phrase "knowledge cutoff", and only with the search key set.
C11_SearchOnlyAfterCutoff ==
    \A w \in Workers :
        (PlainJob(w) /\ SearchMade(w)) => proc[w].cutoffs >= 1 /\ cfg.TAVILY_API_KEY

C11_Witness ==
    \E w \in Workers :
        /\ PlainJob(w) /\ cfg.TAVILY_API_KEY
        /\ CallEnded(w) /\ proc[w].last.exc = NoExc /\ proc[w].last.fn = "ask_gpt"
        /\ proc[w].out.t = "answer"
        /\ ~SearchMade(w) /\ proc[w].cutoffs = 0

\* a queued job that _process_task routes to the search-augmented composer
AugmentedJob(w) ==
    proc[w].task.mode = "gpt" /\ proc[w].task.use_live /\ cfg.TAVILY_API_KEY

MinOf(a, b) == IF a < b THEN a ELSE b

TimeoutText(p) == [t |-> "friendly", key |-> "timeout", lang |-> proc[p].task.lang]

JobIds == 1..MaxMsgs

Queued(id) == \E k \in 1..Len(queue) : queue[k].id = id

Delivered(id) == \E k \in 1..Len(delivered) : delivered[k].id = id

\* C13: a composer cut off by the per-job timeout leaves the timeout text as
\* the job's reply; a worker suspended in a composer, even on a call that is
\* never answered, gets back to the queue; and every queued job is delivered.
C13_TimeoutThenNext ==
    /\ [](\A w \in Workers :
            (proc[w].pc = "send" /\ proc[w].last.out.kind = "cancelled")
                => proc[w].out = TimeoutText(w))
    /\ \A w \in Workers : (proc[w].pc \in {"search", "ssleep", "acquire", "post", "psleep"})
                              ~> (proc[w].pc = "idle")
    /\ \A id \in JobIds : Queued(id) ~> Delivered(id)

C13_Witness ==
    \E w \in Workers :
        /\ proc[w].pc = "send" /\ proc[w].last.out.kind = "cancelled"
        /\ proc[w].out = TimeoutText(w)
        /\ queue # <<>>

\* how many times job id sits in the queue / is with a task / was delivered
InQueue(id) == Cardinality({k \in 1..Len(queue) : queue[k].id = id})

InProcess(id) == Cardinality({p \in Procs : proc[p].pc # "idle" /\ proc[p].task.id = id})

TimesDelivered(id) == Cardinality({k \in 1..Len(delivered) : delivered[k].id = id})

\* the queue is empty and every task is back at its idle await
Drained == queue = <<>> /\ \A p \in Procs : proc[p].pc = "idle"

\* C14: every accepted job is in exactly one place: queued, with exactly one
\* task, or delivered once; so once the queue has drained as many jobs were
\* delivered as were accepted.
C14_ExactlyOnce ==
    /\ \A id \in JobIds :
          InQueue(id) + InProcess(id) + TimesDelivered(id) = (IF id <= nmsgs THEN 1 ELSE 0)
    /\ Drained => Len(delivered) = nmsgs

C14_Witness ==
    \E v, w \in Workers :
        /\ v # w
        /\ proc[v].pc = "send" /\ proc[w].pc = "send"
        /\ proc[v].task.id # proc[w].task.id
        /\ queue = <<>>

\* the ids of the queue's jobs that were delivered, in the order of delivery
RECURSIVE QueueJobs(_)
QueueJobs(d) ==
    IF d = <<>> THEN <<>>
    ELSE IF Head(d).mode = "gpt" THEN <<Head(d).id>> \o QueueJobs(Tail(d))
         ELSE QueueJobs(Tail(d))

Increasing(ids) == \A j, k \in 1..Len(ids) : j < k => ids[j] < ids[k]

\* C15: with one worker the queue's jobs are delivered in the order they were
\* enqueued (ids are given in that order): the delivered ids increase, and the
\* job being processed is older than every queued job and newer than every
\* delivered one.
C15_SingleWorkerFifo ==
    cfg.WORKER_CONCURRENCY = 1
        => /\ Increasing(QueueJobs(delivered) \o [k \in 1..Len(queue) |-> queue[k].id])
           /\ \A w \in Workers :
                 proc[w].pc # "idle"
                    => /\ \A k \in 1..Len(queue) : proc[w].task.id < queue[k].id
                       /\ \A k \in 1..Len(QueueJobs(delivered)) :
                             QueueJobs(delivered)[k] < proc[w].task.id

C15_Witness ==
    /\ cfg.WORKER_CONCURRENCY = 1
    /\ Len(QueueJobs(delivered)) = 2
    /\ QueueJobs(delivered)[1] < QueueJobs(delivered)[2]

\* C16: every enqueued job eventually reaches its terminal state (its reply is
\* delivered), process shutdown included.
C16_EveryJobTerminal == \A id \in JobIds : Queued(id) ~> Delivered(id)

\* C17: the job queue has a configured maximum, and no insertion takes it
\* beyond that maximum.
C17_QueueBounded ==
    [][Len(queue') > Len(queue)
          => (QueueMaxsize > 0 /\ Len(queue') <= QueueMaxsize)]_vars

\* C18: the sender of an enqueued question gets the position-and-ETA notice
\* exactly when the depth of the queue right after the insertion is at or
\* above QUEUE_NOTICE_THRESHOLD, the generic acknowledgement otherwise; the
\* position reported is that depth, the new job counted.
C18_NoticeIffAtThreshold ==
    [][Len(queue') > Len(queue)
          => /\ ack'.kind = (IF Len(queue') >= cfg.QUEUE_NOTICE_THRESHOLD
                             THEN "notice" ELSE "generic")
             /\ ack'.kind = "notice" => ack'.pos = Len(queue) + 1]_vars

C18_Witness ==
    /\ ack.kind = "notice"
    /\ ack.pos = cfg.QUEUE_NOTICE_THRESHOLD
    /\ Len(queue) = ack.pos
    /\ delivered # <<>>

Clamp(x, lo, hi) == IF x < lo THEN lo ELSE IF x > hi THEN hi ELSE x

\* the ETA as stated, for the 6 seconds per job and the minimum of 3 that the
\* code has, and an upper limit hi
StatedEta(position, hi) ==
    Clamp((6 * (position - 1)) \div cfg.WORKER_CONCURRENCY, 3, hi)

EtaCeiling == 6 * (MaxQueueMsgs + 1)

Positions == 1..MaxPosition

\* C20: with the number of workers fixed, the ETA does not decrease as the queue
\* position grows: for positions p <= q, eta(p) <= eta(q); and the ETA of a
\* notice is that of its position.
C20_EtaMonotone ==
    /\ \A p, q \in Positions :
           p <= q => _eta_seconds(p) <= _eta_seconds(q)
    /\ ack.kind = "notice" =>
           \A p \in Positions : p <= ack.pos => _eta_seconds(p) <= ack.eta

C20_Witness ==
    /\ ack.kind = "notice" /\ ack.pos = MaxQueueMsgs
    /\ _eta_seconds(1) < _eta_seconds(2)
    /\ _eta_seconds(ack.pos - 1) < ack.eta

\* the jobs the workers have completed
Completions == Cardinality({k \in 1..Len(delivered) : delivered[k].mode = "gpt"})

FixedMessages == {"timeout", "429", "401", "402", "5xx", "generic"}

\* C25 (as stated): what a worker sends is cleaned completion text, a fixed
\* friendly error message or the no-source message, whatever failed.
C25_OnlyAnswerOrFixedText ==
    \A w \in Workers :
        proc[w].pc = "send" => proc[w].out.t \in {"answer", "friendly", "refusal"}

\* C25 (amended): what a worker sends is cleaned completion text, a fixed
\* friendly error message or, when no OPENAI_API_KEY is set, the echo of the
\* question; never the text of an exception.
C25_AnswerFixedTextOrEcho ==
    \A w \in Workers :
        proc[w].pc = "send"
            => /\ proc[w].out.t \in {"answer", "friendly", "echo"}
               /\ proc[w].out.t = "echo" => ~cfg.OPENAI_API_KEY
               /\ proc[w].out.t = "friendly"
                      => proc[w].out.key \in FixedMessages /\ proc[w].out.lang \in Langs

C25_Witness ==
    \E w \in Workers :
        /\ proc[w].pc = "send" /\ proc[w].last.fn = "ask_gpt"
        /\ proc[w].last.exc.cls = "Exception"
        /\ proc[w].out.t = "friendly" /\ proc[w].out.key = "generic"
        /\ proc[w].task.lang = "uz" /\ proc[w].out.lang = "uz"

\* the text matches a forbidden pattern
Forbidden(text) == text = "hack"

\* the message of task t passed the moderation and the entitlement check
PassedChecks(t) == ~Forbidden(t.text) /\ t.entitled

\* C26: every queued job, every job a worker processes and every request a
\* legal handler answers comes from a message that matches no forbidden
\* pattern and whose sender is whitelisted or has an active subscription; a
\* denied or paywalled message leaves no job and no call behind.
C26_OnlyAdmittedMessages ==
    /\ \A k \in 1..Len(queue) : PassedChecks(queue[k])
    /\ \A p \in Procs : proc[p].pc # "idle" => PassedChecks(proc[p].task)
    /\ (ack.kind \in {"deny", "paywall"} /\ nmsgs = 1)
           => queue = <<>> /\ \A p \in Procs : proc[p].pc = "idle"

C26_Witness ==
    /\ ack.kind = "paywall" /\ nmsgs = 1
    /\ queue = <<>> /\ delivered = <<>>
    /\ \A p \in Procs : proc[p].pc = "idle"

\* C27 (as stated): one job issues at most one draft completion call, whatever
\* the completion's text says.
C27_OneDraftCall == \A w \in Workers : proc[w].ncalls <= 1

\* C27 (amended): one job issues one draft completion call and one more for
\* each "knowledge cutoff" reply ask_gpt got while the search key is set; no
\* other content of a response and no failure brings another call, and no
\* verification call is issued.
C27_OneCallPerCutoff ==
    \A w \in Workers :
        /\ proc[w].ncalls <= 1 + proc[w].cutoffs
        /\ proc[w].cutoffs >= 1 => cfg.TAVILY_API_KEY /\ cfg.OPENAI_API_KEY
        /\ proc[w].verify.kind \in {"none", "raise"}

C27_Witness ==
    \E w \in Workers :
        /\ proc[w].pc = "send" /\ proc[w].ncalls = 2 /\ proc[w].cutoffs = 1
        /\ proc[w].last.fn = "live" /\ proc[w].out.t = "answer"
        /\ ~proc[w].task.use_live

\* C28: with verification enabled, the search key set and a question or draft
\* that looks dynamic, and services that answer every call with non-empty
\* text, the verification call returns and what the worker sends is its text.
C28_VerifiedTextSent ==
    \A w \in Workers :
        (proc[w].pc = "send" /\ VerifyDue(proc[w].task.text, proc[w].draft))
            => /\ proc[w].verify.kind = "return"
               /\ proc[w].out = proc[w].verify.val

\* the verification of w's job failed
VerifyFailed(w) == proc[w].verify.kind = "raise"

\* C29: a failed verification is swallowed: the worker goes on to the send
\* with the draft as its final text, and its next step delivers the job.
C29_VerifyFailureSwallowed ==
    /\ [](\A w \in Workers :
            VerifyFailed(w) => proc[w].pc = "send" /\ proc[w].out = proc[w].draft)
    /\ [][\A w \in Workers :
            (VerifyFailed(w) /\ proc'[w] # proc[w])
                => /\ proc'[w].pc = "idle"
                   /\ Len(delivered') = Len(delivered) + 1
                   /\ delivered'[Len(delivered')].id = proc[w].task.id]_vars

C29_Witness ==
    \E w \in Workers :
        /\ proc[w].pc = "send" /\ proc[w].verify = Raised(NameError)
        /\ ~HasDynamicKeyword(proc[w].task.text)
        /\ proc[w].draft.t = "answer" /\ proc[w].out = proc[w].draft

\* wait_for has cut the composer of w's job
TimedOut(w) == proc[w].last.out.kind = "cancelled"

QueueIds == [k \in 1..Len(queue) |-> queue[k].id]

\* the jobs that have left the queue: with a worker, or delivered
Taken ==
    {proc[w].task.id : w \in {v \in Workers : proc[v].pc # "idle"}}
        \cup {delivered[k].id : k \in {j \in 1..Len(delivered) : delivered[j].mode = "gpt"}}

\* C31: jobs leave the queue in the order they were enqueued, whichever worker
\* takes each: the queue holds them oldest first, a worker that dequeues takes
\* the oldest queued job, and every job that has left the queue is older than
\* every job still in it.
C31_FifoAcrossWorkers ==
    /\ [](/\ Increasing(QueueIds)
          /\ \A a \in Taken : \A k \in 1..Len(queue) : a < queue[k].id)
    /\ [][Len(queue') < Len(queue)
            => /\ queue' = Tail(queue)
               /\ \E w \in Workers :
                     /\ proc[w].pc = "idle" /\ proc'[w].pc # "idle"
                     /\ proc'[w].task = Head(queue)]_vars

C31_Witness ==
    \E v, w \in Workers :
        /\ v # w /\ proc[v].pc # "idle" /\ proc[w].pc # "idle"
        /\ proc[v].task.id < proc[w].task.id
        /\ Len(queue) = 2 /\ proc[w].task.id < queue[1].id
        /\ delivered = <<>>

\* two of the queue's jobs were delivered in the reverse of their arrival order
DeliveredOutOfOrder ==
    \E j, k \in 1..Len(QueueJobs(delivered)) :
        j < k /\ QueueJobs(delivered)[j] > QueueJobs(delivered)[k]

\* C32: the order of completion is not guaranteed with two or more workers: a
\* job enqueued after another can be delivered before it (the witness is such
\* an execution), and that takes two started workers, each with one of the jobs.
C32_OutOfOrderNeedsTwoWorkers ==
    /\ DeliveredOutOfOrder => cfg.WORKER_CONCURRENCY >= 2
    /\ \A v, w \in Workers :
          (v # w /\ proc[v].pc # "idle" /\ proc[w].pc # "idle")
              => cfg.WORKER_CONCURRENCY >= 2 /\ proc[v].task.id # proc[w].task.id

C32_Witness ==
    /\ cfg.WORKER_CONCURRENCY = 2
    /\ Len(QueueJobs(delivered)) = 2
    /\ QueueJobs(delivered)[1] = 2 /\ QueueJobs(delivered)[2] = 1

\* C33: the retrier sleeps only between attempts: it is in a backoff sleep only
\* when another attempt follows, and an invocation that has ended after k
\* attempts has slept exactly k - 1 times.
C33_SleepsOnlyBetweenAttempts ==
    /\ rt.phase = "sleep" => Len(rhist) < rt.attempts
    /\ (RetryDone(rt) /\ Len(rhist) >= 1) => rsleeps = Len(rhist) - 1

\* C34: once the per-job timeout has fired the job's composer is abandoned: the
\* worker awaits nothing of it (no search, no completion call, no permit), no
\* later step of any task changes the job's text before it is sent, the one
\* step the worker then takes is the delivery, and a delivered job is never
\* processed or delivered again.
C34_AbandonedCallsHaveNoEffect ==
    /\ [](\A w \in Workers :
            TimedOut(w)
                => /\ proc[w].pc = "send"
                   /\ ~proc[w].held /\ proc[w].rs = RetryIdle /\ w \notin InFlight)
    /\ [][\A w \in Workers :
            TimedOut(w)
                => \/ proc'[w] = proc[w]
                   \/ /\ proc'[w].pc = "idle"
                      /\ Len(delivered') = Len(delivered) + 1
                      /\ delivered'[Len(delivered')].id = proc[w].task.id]_vars
    /\ [](\A id \in JobIds :
            /\ TimesDelivered(id) <= 1
            /\ Delivered(id) => InProcess(id) = 0 /\ InQueue(id) = 0)
    /\ [][\A k \in 1..Len(delivered) :
            Len(delivered') >= k /\ delivered'[k] = delivered[k]]_vars

C34_Witness ==
    \E v, w \in Workers :
        /\ TimedOut(w) /\ proc[w].last.inflight /\ proc[w].pc = "send"
        /\ proc[v].pc = "post" /\ proc[v].task.id > proc[w].task.id
        /\ sem = cfg.MODEL_CONCURRENCY - 1
        /\ delivered = <<>>

Abs(x) == IF x < 0 THEN 0 - x ELSE x

\* C35: the year rule is true exactly when the text holds a 4-digit year y
\* with |currentYear - y| <= 3; a year more than 3 years back or more than 3
\* years ahead does not make the text dynamic.
C35_FreshYearWithinThree ==
    fy.phase = "done"
        => (fy.result <=>
               \E k \in 1..Len(fy.s) :
                   /\ 1000 <= fy.s[k] /\ fy.s[k] <= 9999
                   /\ Abs(fy.y_now - fy.s[k]) <= 3)

\* the task is inside a composer: suspended in one of its awaits
Running(p) == proc[p].pc \in {"search", "ssleep", "acquire", "post", "psleep"}

\* C36 (as stated): no composer runs outside a pool worker, in any user mode,
\* so the composers running at once never outnumber the workers.
C36_ComposersOnlyInWorkers ==
    /\ \A p \in Procs : Running(p) => p \in Workers
    /\ Cardinality({p \in Procs : Running(p)}) <= cfg.WORKER_CONCURRENCY

\* C36 (amended): every question that passes gating in GPT mode becomes a job
\* at the tail of the queue and is composed by a pool worker, so the composers
\* of queued jobs running at once never outnumber the workers; a question in
\* legal mode is never queued: its composer runs in the message handler.
C36_GptQueuedLegalInHandler ==
    /\ [](/\ \A k \in 1..Len(queue) : queue[k].mode = "gpt"
          /\ \A w \in Workers :
                proc[w].pc # "idle"
                    => proc[w].task.mode = "gpt" /\ w[2] <= cfg.WORKER_CONCURRENCY
          /\ \A h \in Handlers : proc[h].pc # "idle" => proc[h].task.mode = "legal"
          /\ Cardinality({w \in Workers : Running(w)}) <= cfg.WORKER_CONCURRENCY)
    /\ [][nmsgs' > nmsgs
            => \/ /\ Len(queue') = Len(queue) + 1
                  /\ SubSeq(queue', 1, Len(queue)) = queue
                  /\ queue'[Len(queue')].id = nmsgs' /\ queue'[Len(queue')].mode = "gpt"
                  /\ proc' = proc
               \/ /\ queue' = queue
                  /\ \E h \in Handlers :
                        /\ proc[h].pc = "idle" /\ proc'[h].pc # "idle"
                        /\ proc'[h].task.id = nmsgs' /\ proc'[h].task.mode = "legal"]_vars

C36_Witness ==
    \E w \in Workers, h \in Handlers :
        /\ cfg.WORKER_CONCURRENCY = 1
        /\ Running(w) /\ proc[w].task.mode = "gpt"
        /\ Running(h) /\ proc[h].task.mode = "legal"
        /\ proc[w].task.id < proc[h].task.id

\* the tasks that hold a permit
Holders == {p \in Procs : proc[p].held}

\* C37: no task waits for a permit while holding one: a permit is held only
\* during the post and its backoff sleeps, every nested completion call (after
\* a "knowledge cutoff" reply, after an empty search, the strict legal pass)
\* reaches the semaphore with the earlier permit given back, and while a task
\* waits either a permit is free or it is held by a task that does not wait,
\* also with MODEL_CONCURRENCY = 1.
C37_NoHoldAndWait ==
    /\ \A p \in Procs : proc[p].held <=> proc[p].pc \in {"post", "psleep"}
    /\ Cardinality(Holders) + sem = cfg.MODEL_CONCURRENCY
    /\ \A p \in Procs :
          proc[p].pc = "acquire"
              => /\ ~proc[p].held
                 /\ sem > 0 \/ \E q \in Holders : q # p /\ proc[q].pc # "acquire"

C37_Witness ==
    \E v, w \in Workers :
        /\ cfg.MODEL_CONCURRENCY = 1 /\ sem = 0
        /\ proc[w].pc = "acquire" /\ proc[w].ncalls = 2 /\ proc[w].cutoffs = 1
        /\ proc[w].fn = "live"
        /\ proc[v].held /\ proc[v].ncalls = 2 /\ proc[v].fn = "ask_gpt"

\* C38: the wait for a permit is inside the per-job timeout.  A task leaves
\* _model_sem.acquire() either with a permit, entering the post, or by the
\* timeout: then no post was or will be made for that wait, the count of free
\* permits is what it was, the reply is the timeout text, and the task holds
\* no permit from then on (permits released later are free for the others).
C38_WaitCountsAndTakesNothing ==
    /\ [][\A p \in Procs :
            (proc[p].pc = "acquire" /\ proc'[p].pc # "acquire")
                => \/ /\ proc'[p].pc = "post" /\ proc'[p].held
                      /\ sem' = sem - 1 /\ sem > 0
                   \/ /\ proc'[p].pc = "send" /\ ~proc'[p].held
                      /\ sem' = sem
                      /\ proc'[p].last.out.kind = "cancelled"
                      /\ ~proc'[p].last.inflight
                      /\ proc'[p].out = [t |-> "friendly", key |-> "timeout",
                                         lang |-> proc[p].task.lang]]_vars
    /\ [](\A p \in Procs : proc[p].last.out.kind = "cancelled" => ~proc[p].held)
    /\ [](sem >= 0 /\ sem + Cardinality({p \in Procs : proc[p].held}) = cfg.MODEL_CONCURRENCY)

C38_Witness ==
    \E v, w \in Workers :
        /\ cfg.MODEL_CONCURRENCY = 1
        /\ proc[w].pc = "send" /\ proc[w].last.out.kind = "cancelled"
        /\ ~proc[w].last.inflight
        /\ proc[w].ncalls = 1 /\ proc[w].sres.n = 0 /\ ~proc[w].task.use_live
        /\ proc[w].out.key = "timeout"
        /\ proc[v].pc = "post" /\ sem = 0

\* the answer refers to the allowlisted domain (a link whose host is lex.uz or
\* a subdomain of it) and names an article or clause by number
CitesAllowlisted(body) ==
    /\ LinkOf(body) # <<>>
    /\ InDomain(LinkOf(body), LexUz)
    /\ HasArticle(body)

\* C39: a legal request makes at most 2 completion calls, and what it returns
\* is an answer with an allowlisted-domain reference and an article number,
\* the fixed no-source refusal, or a friendly error: never an uncited answer.
C39_LegalAnswersAreCited ==
    \A h \in Handlers :
        /\ proc[h].ncalls <= 2
        /\ proc[h].pc = "send"
              => /\ proc[h].out.t \in {"answer", "refusal", "friendly"}
                 /\ proc[h].out.t = "answer" => CitesAllowlisted(proc[h].out.body)

====
